---------------------------- MODULE Spec2Model ----------------------------
(***************************************************************************)
(* Model of src/license_report.py: the license usage report generator.     *)
(*                                                                         *)
(* main() runs six stages in sequence: get_access_token,                   *)
(* get_subscribed_skus, get_users_with_licenses, analyze_licenses,         *)
(* create_excel_report, print_summary.  The state is main's local          *)
(* variables, the workbook written to disk and the console output.         *)
(*                                                                         *)
(* Python's float is IEEE-754 binary64.  The utilization percentage is     *)
(* computed as consumed / enabled * 100 in that arithmetic, so the model   *)
(* carries binary64 values exactly: a value is a 53 bit significand (a     *)
(* sequence of bits, most significant first) and a binary exponent, and    *)
(* every operation rounds to nearest, ties to even, as the hardware does.  *)
(***************************************************************************)
EXTENDS Integers, Sequences, FiniteSets, TLC

VARIABLES pc, token, skus, users, license_data, workbook, console

vars == <<pc, token, skus, users, license_data, workbook, console>>

(***************************************************************************)
(* Bounds of the model.                                                    *)
(***************************************************************************)
\* The directory returns at most MaxObjects objects, SKUs and users together.
MaxObjects == 3

(***************************************************************************)
(* Unbounded naturals as bit sequences, most significant bit first.        *)
(* They model the exact integers behind Python's float arithmetic.  The    *)
(* operations work on chunks of ChunkBits bits, each chunk a machine       *)
(* integer.  They are functions, so every argument is a value when the     *)
(* body is evaluated.                                                      *)
(***************************************************************************)
ChunkBits == 15

BitSeq == Seq({0, 1})

Zeros[n \in Int] == IF n <= 0 THEN <<>> ELSE [i \in 1..n |-> 0]

\* The w bits of n < 2^w.
FixBits[n \in Nat, w \in Int] ==
    IF w <= 0 THEN <<>> ELSE [i \in 1..w |-> (n \div 2^(w - i)) % 2]

Trim[b \in BitSeq] ==
    LET ones == {i \in 1..Len(b) : b[i] = 1}
    IN  IF ones = {} THEN <<>>
        ELSE SubSeq(b, CHOOSE i \in ones : \A j \in ones : i <= j, Len(b))

NatBits[n \in Nat] == IF n = 0 THEN <<>> ELSE Append(NatBits[n \div 2], n % 2)

BitsNat[b \in BitSeq] ==
    IF b = <<>> THEN 0 ELSE 2 * BitsNat[SubSeq(b, 1, Len(b) - 1)] + b[Len(b)]

AnyOne[b \in BitSeq] == \E i \in 1..Len(b) : b[i] = 1

\* b * k + carry for naturals k, carry < 2^16: schoolbook multiplication from
\* the last chunk.
MulCarry[b \in BitSeq, k \in Nat, carry \in Nat] ==
    IF b = <<>> THEN NatBits[carry]
    ELSE LET L == Len(b)
             w == IF L < ChunkBits THEN L ELSE ChunkBits
             d == BitsNat[SubSeq(b, L - w + 1, L)] * k + carry
         IN  MulCarry[SubSeq(b, 1, L - w), k, d \div 2^w] \o FixBits[d % 2^w, w]

MulSmall[b \in BitSeq, k \in Nat] == Trim[MulCarry[b, k, 0]]

\* b + 1
Inc[b \in BitSeq] ==
    LET zs == {i \in 1..Len(b) : b[i] = 0}
    IN  IF zs = {} THEN <<1>> \o Zeros[Len(b)]
        ELSE LET z == CHOOSE i \in zs : \A j \in zs : j <= i
             IN  SubSeq(b, 1, z - 1) \o <<1>> \o Zeros[Len(b) - z]

\* -1, 0, 1 as a < b, a = b, a > b, for a and b of one length.
CmpSame[a \in BitSeq, b \in BitSeq] ==
    LET ds == {i \in 1..Len(a) : a[i] # b[i]}
    IN  IF ds = {} THEN 0
        ELSE IF a[CHOOSE i \in ds : \A j \in ds : i <= j] = 0 THEN -1 ELSE 1

CmpTrimmed[x \in BitSeq, y \in BitSeq] ==
    IF Len(x) < Len(y) THEN -1
    ELSE IF Len(x) > Len(y) THEN 1
    ELSE CmpSame[x, y]

Cmp[a \in BitSeq, b \in BitSeq] == CmpTrimmed[Trim[a], Trim[b]]

\* a + b + carry, for a and b of one length.
AddCarry[a \in BitSeq, b \in BitSeq, carry \in Nat] ==
    IF a = <<>> THEN NatBits[carry]
    ELSE LET n == Len(a)
             w == IF n < ChunkBits THEN n ELSE ChunkBits
             d == BitsNat[SubSeq(a, n - w + 1, n)] + BitsNat[SubSeq(b, n - w + 1, n)] + carry
         IN  AddCarry[SubSeq(a, 1, n - w), SubSeq(b, 1, n - w), d \div 2^w]
                 \o FixBits[d % 2^w, w]

Add[a \in BitSeq, b \in BitSeq] ==
    Trim[AddCarry[Zeros[Len(b) - Len(a)] \o a, Zeros[Len(a) - Len(b)] \o b, 0]]

\* Long division of the bit sequence b by a natural 0 < den < 2^16, from the
\* first chunk, r the remainder carried in: the bits of the quotient, followed
\* by the remainder.
DivSmall[b \in BitSeq, den \in Nat, r \in Nat] ==
    IF b = <<>> THEN <<r>>
    ELSE LET L == Len(b)
             w == IF L < ChunkBits THEN L ELSE ChunkBits
             x == r * 2^w + BitsNat[SubSeq(b, 1, w)]
         IN  FixBits[x \div den, w] \o DivSmall[SubSeq(b, w + 1, L), den, x % den]

(***************************************************************************)
(* IEEE-754 binary64, the arithmetic of Python's float.  A value is        *)
(* m * 2^e with m a significand of MantBits bits whose first bit is 1;     *)
(* zero has the empty significand.  Only values >= 0 occur: the unit       *)
(* counts of the directory are naturals.                                   *)
(***************************************************************************)
MantBits == 53

FZero == [t |-> "float", m |-> <<>>, e |-> 0]

PyInt(n) == [t |-> "int", v |-> n]

Floats == [t : {"float"}, m : BitSeq, e : Int]

Numbers == Floats \cup [t : {"int"}, v : Int]

\* The binary64 nearest to b * 2^e (plus, with sticky, a fraction of the last
\* place of b), ties to even, for b with a leading 1.
RoundTrimmed[b \in BitSeq, e \in Int, sticky \in BOOLEAN] ==
    LET L == Len(b)
    IN  IF L = 0 THEN FZero
        ELSE IF L <= MantBits
        THEN [t |-> "float", m |-> b \o Zeros[MantBits - L], e |-> e - (MantBits - L)]
        ELSE LET d     == L - MantBits
                 head  == SubSeq(b, 1, MantBits)
                 guard == b[MantBits + 1]
                 rest  == AnyOne[SubSeq(b, MantBits + 2, L)] \/ sticky
                 up    == guard = 1 /\ (rest \/ head[MantBits] = 1)
                 r     == IF up THEN Inc[head] ELSE head
             IN  IF Len(r) > MantBits
                 THEN [t |-> "float", m |-> SubSeq(r, 1, MantBits), e |-> e + d + 1]
                 ELSE [t |-> "float", m |-> r, e |-> e + d]

Round53[p \in BitSeq, e \in Int, sticky \in BOOLEAN] == RoundTrimmed[Trim[p], e, sticky]

\* The float of a quotient given as DivSmall returns it, scaled by 2^e.
RoundQuotient[d \in Seq(Nat), e \in Int] ==
    Round53[SubSeq(d, 1, Len(d) - 1), e, d[Len(d)] # 0]

\* num / den of two ints, num >= 0 and den > 0: Python's true division, which
\* returns the correctly rounded quotient.
FDiv[num \in Nat, den \in Nat] ==
    IF num = 0 THEN FZero
    ELSE LET S == MantBits + 2 + Len(NatBits[den])
         IN  RoundQuotient[DivSmall[NatBits[num] \o Zeros[S], den, 0], 0 - S]

\* f * k for a float f and an int k >= 0 (k is converted exactly).
FMulInt[f \in Floats, k \in Nat] ==
    IF f.m = <<>> \/ k = 0 THEN FZero
    ELSE Round53[MulSmall[f.m, k], f.e, FALSE]

\* -1, 0, 1 as a * 2^ea is below, equal to or above the natural with bits b.
ScaledCmp[a \in BitSeq, ea \in Int, b \in BitSeq] ==
    IF ea >= 0 THEN Cmp[a \o Zeros[ea], b] ELSE Cmp[a, b \o Zeros[0 - ea]]

\* Python compares an int or a float with an int exactly.
NumCmpInt[x \in Numbers, n \in Nat] ==
    IF x.t = "int" THEN (IF x.v < n THEN -1 ELSE IF x.v > n THEN 1 ELSE 0)
    ELSE ScaledCmp[x.m, x.e, NatBits[n]]

NumLt(x, n) == NumCmpInt[x, n] < 0

Pow10[d \in Nat] == IF d = 0 THEN 1 ELSE 10 * Pow10[d - 1]

\* The integer nearest to q / 2^k, ties to even, for q of more than k bits.
RoundShift[q \in BitSeq, k \in Nat] ==
    LET L     == Len(q)
        guard == q[L - k + 1]
        rest  == AnyOne[SubSeq(q, L - k + 2, L)]
        up    == guard = 1 /\ (rest \/ q[L - k] = 1)
    IN  BitsNat[SubSeq(q, 1, L - k)] + (IF up THEN 1 ELSE 0)

\* p * 2^e to the nearest integer, ties to even.
RoundScaled[p \in BitSeq, e \in Int] ==
    IF e >= 0 THEN BitsNat[p \o Zeros[e]]
    ELSE RoundShift[Zeros[1 - e - Len(p)] \o p, 0 - e]

\* format(x, ".<digits>f"): the decimal with that many digits nearest to the
\* exact value of x, ties to even, returned as the integer x * 10^digits
\* (333 is "33.3" for digits = 1).
FormatFixed[x \in Numbers, digits \in Nat] ==
    IF x.t = "int" THEN x.v * Pow10[digits]
    ELSE IF x.m = <<>> THEN 0
    ELSE RoundScaled[MulSmall[x.m, Pow10[digits]], x.e]

(***************************************************************************)
(* What the identity provider and the directory can answer.                *)
(***************************************************************************)
None == "<None>"

\* acquire_token_for_client's result: a token (which may be empty) or an error.
AuthResults == { [access_token |-> "eyJ0eXAi"],
                 [access_token |-> ""],
                 [error_description |-> "AADSTS7000215"] }

SkuIds == {"sku-A", "sku-B"}

\* The part number the directory gives each SKU id: one the name table knows,
\* one it does not.
PartNumberOf(id) == IF id = "sku-A" THEN "SPE_E3" ELSE "CONTOSO_CUSTOM"

\* <<enabled, consumed>> unit counts of a SKU: nothing purchased; half, a
\* third, four fifths and seven tenths consumed; more consumed than enabled.
UnitCases == { <<0, 0>>, <<2, 1>>, <<3, 1>>, <<5, 4>>, <<10, 7>>, <<1, 2>> }

\* The unit counts each SKU id is seen with.
UnitCasesOf(id) == IF id = "sku-A" THEN UnitCases
                   ELSE { <<0, 0>>, <<3, 1>>, <<10, 7>> }

Skus == { [skuId |-> p[1], skuPartNumber |-> PartNumberOf(p[1]),
           prepaidUnits |-> [enabled |-> p[2][1]], consumedUnits |-> p[2][2]] :
          p \in { q \in SkuIds \X UnitCases : q[2] \in UnitCasesOf(q[1]) } }

License(id) == [skuId |-> id]

\* Users as the directory returns them; the assignedLicenses field may be
\* absent, and two users may share a display name.
Users ==
    { [displayName |-> "Alice"],
      [displayName |-> "Alice", assignedLicenses |-> <<License("sku-A")>>],
      [displayName |-> "Alice", assignedLicenses |-> <<License("sku-A"), License("sku-B")>>],
      [displayName |-> "Bob", assignedLicenses |-> <<>>],
      [displayName |-> "Bob", assignedLicenses |-> <<License("sku-A")>>],
      [displayName |-> "Bob", assignedLicenses |-> <<License("sku-B")>>] }

RECURSIVE SeqsUpTo(_, _)
SeqsUpTo(S, n) == IF n <= 0 THEN {<<>>}
                  ELSE LET shorter == SeqsUpTo(S, n - 1)
                       IN  shorter \cup { Append(q, x) : q \in {r \in shorter : Len(r) = n - 1}, x \in S }

(***************************************************************************)
(* get_friendly_license_name                                               *)
(***************************************************************************)
license_names ==
    [ ENTERPRISEPACK       |-> "Office 365 E3",
      ENTERPRISEPREMIUM    |-> "Office 365 E5",
      SPE_E3               |-> "Microsoft 365 E3",
      SPE_E5               |-> "Microsoft 365 E5",
      STANDARDPACK         |-> "Office 365 E1",
      DESKLESSPACK         |-> "Office 365 F3",
      EXCHANGESTANDARD     |-> "Exchange Online (Plan 1)",
      EXCHANGEENTERPRISE   |-> "Exchange Online (Plan 2)",
      SHAREPOINTSTANDARD   |-> "SharePoint Online (Plan 1)",
      SHAREPOINTENTERPRISE |-> "SharePoint Online (Plan 2)",
      POWER_BI_STANDARD    |-> "Power BI (Free)",
      POWER_BI_PRO         |-> "Power BI Pro",
      PROJECTPROFESSIONAL  |-> "Project Plan 3",
      VISIOCLIENT          |-> "Visio Plan 2",
      TEAMS_EXPLORATORY    |-> "Microsoft Teams Exploratory",
      FLOW_FREE            |-> "Power Automate Free",
      POWERAPPS_VIRAL      |-> "Power Apps Trial" ]

\* Mutant of get_friendly_license_name: no pass-through default.
get_friendly_license_name_NoDefault(sku_part_number) ==
    IF sku_part_number \in DOMAIN license_names
    THEN license_names[sku_part_number]
    ELSE "Unknown"

\* license_names.get(sku_part_number, sku_part_number)
get_friendly_license_name(sku_part_number) ==
    IF sku_part_number \in DOMAIN license_names
    THEN license_names[sku_part_number]
    ELSE sku_part_number

(***************************************************************************)
(* analyze_licenses                                                        *)
(***************************************************************************)
\* user.get('assignedLicenses', [])
AssignedLicenses(user) ==
    IF "assignedLicenses" \in DOMAIN user THEN user.assignedLicenses ELSE <<>>

\* Mutant of HasLicense: only the first assigned license is looked at.
HasLicense_FirstOnly(user, sku_id) ==
    /\ Len(AssignedLicenses(user)) > 0
    /\ AssignedLicenses(user)[1].skuId = sku_id

\* any(license['skuId'] == sku_id for license in user.get('assignedLicenses', []))
HasLicense(user, sku_id) ==
    \E i \in 1..Len(AssignedLicenses(user)) : AssignedLicenses(user)[i].skuId = sku_id

\* The inner loop: the display names of the users holding sku_id, in user order.
UsersWithLicense(us, sku_id) ==
    LET holders == SelectSeq(us, LAMBDA u : HasLicense(u, sku_id))
    IN  [i \in 1..Len(holders) |-> holders[i].displayName]

\* Mutant of Available: clamped at 0.
Available_Clamped(enabled, consumed) ==
    IF enabled > consumed THEN enabled - consumed ELSE 0

\* Mutant of UtilizationPct: the ratio, not the percentage.
UtilizationPct_Ratio(enabled, consumed) ==
    IF enabled > 0 THEN FDiv[consumed, enabled] ELSE PyInt(0)

\* available = enabled - consumed
Available(enabled, consumed) == enabled - consumed

\* (consumed / enabled * 100) if enabled > 0 else 0
UtilizationPct(enabled, consumed) ==
    IF enabled > 0 THEN FMulInt[FDiv[consumed, enabled], 100] ELSE PyInt(0)

\* The dict appended for one SKU.
LicenseRow(sku, us) ==
    [ license_name    |-> get_friendly_license_name(sku.skuPartNumber),
      sku_code        |-> sku.skuPartNumber,
      total_licenses  |-> sku.prepaidUnits.enabled,
      assigned        |-> sku.consumedUnits,
      available       |-> Available(sku.prepaidUnits.enabled, sku.consumedUnits),
      utilization_pct |-> UtilizationPct(sku.prepaidUnits.enabled, sku.consumedUnits),
      users           |-> UsersWithLicense(us, sku.skuId) ]

\* Mutant of analyze_licenses: a SKU id seen before gets no second row.
analyze_licenses_Dedup(ss, us) ==
    LET keep == SelectSeq([i \in 1..Len(ss) |-> i],
                          LAMBDA i : \A j \in 1..(i - 1) : ss[j].skuId # ss[i].skuId)
    IN  [k \in 1..Len(keep) |-> LicenseRow(ss[keep[k]], us)]

analyze_licenses(ss, us) == [i \in 1..Len(ss) |-> LicenseRow(ss[i], us)]

(***************************************************************************)
(* create_excel_report                                                     *)
(***************************************************************************)
HeaderFill == "366092"
RedFill    == "FFC7CE"
YellowFill == "FFEB9C"
GreenFill  == "C6EFCE"
NoFill     == "none"

RedBelow    == 50
YellowBelow == 80

\* Mutant of UtilFill: the boundaries belong to the lower band.
UtilFill_Inclusive(util_value) ==
    IF NumCmpInt[util_value, RedBelow] <= 0 THEN RedFill
    ELSE IF NumCmpInt[util_value, YellowBelow] <= 0 THEN YellowFill
    ELSE GreenFill

\* The if / elif / else that colours a utilization cell.
UtilFill(util_value) ==
    IF NumLt(util_value, RedBelow) THEN RedFill
    ELSE IF NumLt(util_value, YellowBelow) THEN YellowFill
    ELSE GreenFill

\* license_data[row-2], the list being 0-based in the code and 1-based here.
FillSource(ld, row) == ld[row - 1]

SummaryHeader ==
    [ cells |-> <<"License Type", "SKU Code", "Total Purchased", "Assigned",
                  "Available", "Utilization %">>,
      fills |-> <<HeaderFill, HeaderFill, HeaderFill, HeaderFill, HeaderFill, HeaderFill>> ]

\* One data row of the summary sheet.  The last cell is f"{utilization_pct:.1f}%",
\* kept as the number of tenths.
SummaryRow(lic, fill) ==
    [ cells |-> << lic.license_name, lic.sku_code, lic.total_licenses, lic.assigned,
                   lic.available, FormatFixed[lic.utilization_pct, 1] >>,
      fills |-> <<NoFill, NoFill, NoFill, NoFill, NoFill, fill>> ]

SummarySheet(ld) ==
    [ row \in 1..(Len(ld) + 1) |->
        IF row = 1 THEN SummaryHeader
        ELSE SummaryRow(ld[row - 1], UtilFill(FillSource(ld, row).utilization_pct)) ]

\* The detail sheet: one row per (license, user) pair, license by license.
DetailRows(ld) ==
    LET upto[n \in 0..Len(ld)] ==
            IF n = 0 THEN <<>>
            ELSE upto[n - 1]
                 \o [i \in 1..Len(ld[n].users) |-> <<ld[n].license_name, ld[n].users[i]>>]
    IN  upto[Len(ld)]

NoWorkbook == [saved |-> FALSE, summary |-> <<>>, detail |-> <<>>]

create_excel_report(ld) ==
    [ saved   |-> TRUE,
      summary |-> SummarySheet(ld),
      detail  |-> <<[cells |-> <<"License Type", "User Name">>,
                     fills |-> <<HeaderFill, HeaderFill>>]>>
                  \o [i \in 1..Len(DetailRows(ld)) |->
                        [cells |-> DetailRows(ld)[i], fills |-> <<NoFill, NoFill>>]] ]

(***************************************************************************)
(* print_summary                                                           *)
(***************************************************************************)
LowUtilBelow == 70

\* sum(lic[field] for lic in license_data)
SumOf(ld, field) ==
    LET upto[n \in 0..Len(ld)] == IF n = 0 THEN 0 ELSE upto[n - 1] + ld[n][field]
    IN  upto[Len(ld)]

\* Mutant of LowUtil: a row at exactly 70 is listed.
LowUtil_Inclusive(ld) ==
    SelectSeq(ld, LAMBDA lic : NumCmpInt[lic.utilization_pct, LowUtilBelow] <= 0
                               /\ lic.total_licenses > 0)

\* [lic for lic in license_data if lic['utilization_pct'] < 70 and lic['total_licenses'] > 0]
LowUtil(ld) ==
    SelectSeq(ld, LAMBDA lic : NumLt(lic.utilization_pct, LowUtilBelow)
                               /\ lic.total_licenses > 0)

\* sorted(..., key=lambda x: x['available'], reverse=True): a stable sort, so
\* a row comes after the rows of larger key and the earlier rows of its key.
SortedPosition(rows, i) ==
    1 + Cardinality({j \in 1..Len(rows) : rows[j].available > rows[i].available})
      + Cardinality({j \in 1..(i - 1) : rows[j].available = rows[i].available})

SortedByAvailable(rows) ==
    [p \in 1..Len(rows) |-> rows[CHOOSE i \in 1..Len(rows) : SortedPosition(rows, i) = p]]

\* The line printed for one low-utilization row; the percentage is
\* f"{utilization_pct:.0f}".
LowLine(lic) ==
    <<"low", lic.license_name, lic.available, FormatFixed[lic.utilization_pct, 0]>>

LowUtilLines(ld) ==
    IF LowUtil(ld) # <<>>
    THEN [i \in 1..Len(LowUtil(ld)) |-> LowLine(SortedByAvailable(LowUtil(ld))[i])]
    ELSE << <<"No licenses with low utilization found.">> >>

\* What print_summary prints before it formats the overall utilization.
SummaryTotals(ld) ==
    << <<"======">>, <<"LICENSE USAGE SUMMARY">>, <<"======">>,
       <<"Total Licenses Purchased", SumOf(ld, "total_licenses")>>,
       <<"Total Assigned", SumOf(ld, "assigned")>>,
       <<"Total Available (Unused)", SumOf(ld, "available")>> >>

\* Mutant of OverallRaises: the division is guarded.
OverallRaises_Guarded(ld) == FALSE

\* total_assigned/total_licenses raises ZeroDivisionError when the divisor is 0.
OverallRaises(ld) == SumOf(ld, "total_licenses") = 0

\* f"{(total_assigned/total_licenses*100):.1f}", in tenths.
OverallUtilization(ld) ==
    FormatFixed[FMulInt[FDiv[SumOf(ld, "assigned"), SumOf(ld, "total_licenses")], 100], 1]

\* What print_summary prints from the overall utilization on.
SummaryRest(ld) ==
    << <<"Overall Utilization", OverallUtilization(ld)>>, <<"">>,
       <<"LOW UTILIZATION LICENSES (Potential Cost Savings):">>, <<"------">> >>
    \o LowUtilLines(ld)
    \o << <<"======">> >>

(***************************************************************************)
(* main: one action per stage, each with main's test of its result.        *)
(* pc is the stage main is about to run, or how main ended: "done" after   *)
(* print_summary returned, "exited" after an early return, "crashed" after *)
(* an unhandled exception.                                                 *)
(***************************************************************************)
Banner == << <<"======">>, <<"MICROSOFT LICENSE USAGE REPORT GENERATOR">>, <<"======">> >>

\* not token
NotToken(t) == t = None \/ t = ""

\* Mutant of AfterUsers: the return after an empty user collection is missing.
AfterUsers_NoReturn(l) == "analyze"

\* Mutant of AfterToken: the SKU stage is skipped.
AfterToken_SkipSkus(t) == IF t = "<None>" \/ t = "" THEN "exited" ELSE "list_users"

\* not skus, not users
NotList(l) == Len(l) = 0

\* Where main goes after each of its three tests.
AfterToken(t) == IF NotToken(t) THEN "exited" ELSE "list_skus"
AfterSkus(l)  == IF NotList(l) THEN "exited" ELSE "list_users"
AfterUsers(l) == IF NotList(l) THEN "exited" ELSE "analyze"

\* Step 1: get_access_token, then `if not token: return`.
Authenticate ==
    /\ pc = "authenticate"
    /\ \E result \in AuthResults :
         LET ok  == "access_token" \in DOMAIN result
             tok == IF ok THEN result.access_token ELSE None
             out == Banner \o << <<"Authenticating...">> >>
                    \o (IF ok THEN << <<"Authentication successful">> >>
                        ELSE << <<"Authentication failed", result.error_description>> >>)
         IN  /\ token' = tok
             /\ pc' = AfterToken(tok)
             /\ console' = console \o out
                   \o (IF NotToken(tok)
                       THEN << <<"Failed to authenticate. Check your .env file credentials.">> >>
                       ELSE <<>>)
    /\ UNCHANGED <<skus, users, license_data, workbook>>

\* The collections GET /subscribedSkus can return.
SkuAnswers == SeqsUpTo(Skus, MaxObjects)

\* The collections GET /users can return when the directory has n objects left.
UserAnswers == [n \in 0..MaxObjects |-> SeqsUpTo(Users, n)]

\* Step 2: get_subscribed_skus, then `if not skus: return`.  The request is
\* answered (ok) or raises a RequestException, which returns [].
ListSkus ==
    /\ pc = "list_skus"
    /\ \E ok \in BOOLEAN :
         /\ skus' \in (IF ok THEN SkuAnswers ELSE {<<>>})
         /\ pc' = AfterSkus(skus')
         /\ console' = console
               \o << <<"Retrieving license subscriptions...">> >>
               \o (IF ok THEN << <<"Retrieved license types", Len(skus')>> >>
                   ELSE << <<"Error retrieving licenses">> >>)
               \o (IF NotList(skus')
                   THEN << <<"No licenses found or error retrieving licenses.">> >>
                   ELSE <<>>)
    /\ UNCHANGED <<token, users, license_data, workbook>>

\* Step 3: get_users_with_licenses, then `if not users: return`.
ListUsers ==
    /\ pc = "list_users"
    /\ \E ok \in BOOLEAN :
         /\ users' \in (IF ok THEN UserAnswers[MaxObjects - Len(skus)] ELSE {<<>>})
         /\ pc' = AfterUsers(users')
         /\ console' = console
               \o << <<"Retrieving users and their licenses...">> >>
               \o (IF ok THEN << <<"Retrieved users", Len(users')>> >>
                   ELSE << <<"Error retrieving users">> >>)
               \o (IF NotList(users')
                   THEN << <<"No users found or error retrieving users.">> >>
                   ELSE <<>>)
    /\ UNCHANGED <<token, skus, license_data, workbook>>

\* Step 4: license_data = analyze_licenses(skus, users)
Analyze ==
    /\ pc = "analyze"
    /\ license_data' = analyze_licenses(skus, users)
    /\ console' = console \o << <<"Analyzing license usage...">>, <<"Analysis complete">> >>
    /\ pc' = "write_report"
    /\ UNCHANGED <<token, skus, users, workbook>>

\* Step 5: create_excel_report(license_data)
CreateExcel ==
    /\ pc = "write_report"
    /\ workbook' = create_excel_report(license_data)
    /\ console' = console \o << <<"Creating Excel report...">>, <<"Report saved to">> >>
    /\ pc' = "print_summary"
    /\ UNCHANGED <<token, skus, users, license_data>>

\* Step 6: print_summary(license_data)
PrintSummary ==
    /\ pc = "print_summary"
    /\ IF OverallRaises(license_data)
       THEN /\ console' = console \o SummaryTotals(license_data)
            /\ pc' = "crashed"
       ELSE /\ console' = console \o SummaryTotals(license_data) \o SummaryRest(license_data)
            /\ pc' = "done"
    /\ UNCHANGED <<token, skus, users, license_data, workbook>>

Init ==
    /\ pc = "authenticate"
    /\ token = None
    /\ skus = <<>>
    /\ users = <<>>
    /\ license_data = <<>>
    /\ workbook = NoWorkbook
    /\ console = <<>>

Next == Authenticate \/ ListSkus \/ ListUsers \/ Analyze \/ CreateExcel \/ PrintSummary

Spec == Init /\ [][Next]_vars

\* Every call main makes returns: the requests are answered or fail.
FairSpec == Spec /\ WF_vars(Next)

(***************************************************************************)
(* analyze_licenses, create_excel_report and print_summary called as       *)
(* functions, on any SKU and user collections (empty ones included).       *)
(***************************************************************************)
LibInit ==
    /\ pc = "analyze"
    /\ token = None
    /\ skus \in SkuAnswers
    /\ users \in UserAnswers[MaxObjects - Len(skus)]
    /\ license_data = <<>>
    /\ workbook = NoWorkbook
    /\ console = <<>>

LibNext == Analyze \/ CreateExcel \/ PrintSummary

LibSpec == LibInit /\ [][LibNext]_vars

(***************************************************************************)
(* Properties                                                              *)
(***************************************************************************)
\* The console holds a line that starts with s.
Said(s) == \E i \in 1..Len(console) : console[i][1] = s

\* The first line each stage prints, in main's order.
Stages == << "Authenticating...", "Retrieving license subscriptions...",
             "Retrieving users and their licenses...", "Analyzing license usage...",
             "Creating Excel report...", "LICENSE USAGE SUMMARY" >>

StageNames == {Stages[i] : i \in 1..Len(Stages)}

\* The stages run so far, in the order they started.
StagesRun == SelectSeq(console, LAMBDA l : l[1] \in StageNames)

Ended == pc \in {"done", "exited", "crashed"}

\* analyze_licenses has just returned license_data.
Analysed == pc = "write_report"

\* create_excel_report has just saved the workbook.
Saved == pc = "print_summary"

\* The SKU ids a user is assigned, read from the directory's answer.
LicenseIdSet(u) ==
    IF "assignedLicenses" \in DOMAIN u
    THEN {u.assignedLicenses[k].skuId : k \in 1..Len(u.assignedLicenses)}
    ELSE {}

\* The users (by position) holding the SKU at position i.
Holders(i) == {j \in 1..Len(users) : skus[i].skuId \in LicenseIdSet(users[j])}

\* C1: once the token is missing, or the SKU collection or the user collection
\* came back empty, main has returned: no later stage has run or will run, no
\* analysis exists, no spreadsheet is saved and no summary is printed.
C1_FailureStopsTheRun ==
    LET failed == \/ Said(Stages[1]) /\ NotToken(token)
                  \/ Said(Stages[2]) /\ NotList(skus)
                  \/ Said(Stages[3]) /\ NotList(users)
    IN  failed => /\ pc = "exited"
                  /\ ~Said(Stages[4]) /\ ~Said(Stages[5]) /\ ~Said(Stages[6])
                  /\ license_data = <<>>
                  /\ workbook = NoWorkbook

\* C1 witness: the SKU fetch succeeded, the user fetch failed, main returned.
C1_Witness ==
    /\ pc = "exited"
    /\ skus # <<>>
    /\ Said("Error retrieving users")
    /\ ~workbook.saved

\* C2: at every moment the stages run so far are an initial part of the fixed
\* order (so none repeats and none is skipped), each stage ran only after the
\* earlier ones succeeded, and every run ends.
C2_StagesInOrder ==
    /\ Len(StagesRun) <= Len(Stages)
    /\ \A i \in 1..Len(StagesRun) : StagesRun[i][1] = Stages[i]
    /\ Len(StagesRun) >= 2 => ~NotToken(token)
    /\ Len(StagesRun) >= 3 => ~NotList(skus)
    /\ Len(StagesRun) >= 4 => ~NotList(users)
    /\ Len(StagesRun) >= 5 => Said("Analysis complete")
    /\ Len(StagesRun) >= 6 => workbook.saved

C2_OrderedAndTerminates == []C2_StagesInOrder /\ <>Ended

\* C2 witness: a run that went through all six stages.
C2_Witness == pc = "done" /\ Len(StagesRun) = 6

\* C3 as stated: a user's display name is in a row's list iff that user holds
\* the row's SKU.
C3_NameIffUserHolds ==
    Analysed =>
        \A i \in 1..Len(license_data) : \A j \in 1..Len(users) :
            (\E k \in 1..Len(license_data[i].users) :
                 license_data[i].users[k] = users[j].displayName)
            <=> j \in Holders(i)

\* C3 amended: a row's list is the display names of the holders of its SKU, in
\* user order, one entry per holder; so a name is listed iff some user of that
\* name holds the SKU, and a user without licenses adds no entry.
C3_ListIsHoldersNames ==
    Analysed =>
        \A i \in 1..Len(license_data) :
            LET listed == license_data[i].users
            IN  /\ Len(listed) = Cardinality(Holders(i))
                /\ \A k \in 1..Len(listed) :
                     \E j \in Holders(i) :
                        /\ listed[k] = users[j].displayName
                        /\ Cardinality({h \in Holders(i) : h <= j}) = k

\* C3 witness: two users share a display name, one holds the row's SKU and
\* the other holds nothing.
C3_Witness ==
    /\ Analysed
    /\ \E i \in 1..Len(license_data) : \E j, h \in 1..Len(users) :
          /\ users[j].displayName = users[h].displayName
          /\ j \in Holders(i)
          /\ LicenseIdSet(users[h]) = {}

\* Row i is built from input SKU i.
RowFromSku(i) ==
    /\ license_data[i].sku_code = skus[i].skuPartNumber
    /\ license_data[i].total_licenses = skus[i].prepaidUnits.enabled
    /\ license_data[i].assigned = skus[i].consumedUnits
    /\ Len(license_data[i].users) = Cardinality(Holders(i))

\* C4 as stated: one row per distinct SKU id, row i built from input SKU i.
C4_OneRowPerDistinctSku ==
    Analysed =>
        /\ Len(license_data) = Cardinality({skus[i].skuId : i \in 1..Len(skus)})
        /\ \A i \in 1..Len(license_data) : RowFromSku(i)

\* C4 amended: one row per entry of the input collection, in input order; a SKU
\* id that occurs k times gets k rows.
C4_OneRowPerEntry ==
    Analysed =>
        /\ Len(license_data) = Len(skus)
        /\ \A i \in 1..Len(license_data) : RowFromSku(i)

\* C4 witness: the same SKU id twice, and no users.
C4_Witness ==
    /\ Analysed
    /\ users = <<>>
    /\ Len(license_data) = 2
    /\ skus[1].skuId = skus[2].skuId

\* C5: total is the enabled count, assigned the consumed count, available their
\* difference, negative whenever more is consumed than enabled, whoever holds
\* the SKU.
C5_AvailableIsDifference ==
    Analysed =>
        \A i \in 1..Len(license_data) :
            LET r == license_data[i]
                enabled  == skus[i].prepaidUnits.enabled
                consumed == skus[i].consumedUnits
            IN  /\ r.total_licenses = enabled
                /\ r.assigned = consumed
                /\ r.available = enabled - consumed
                /\ consumed > enabled => r.available < 0

\* C5 witness: a row with a negative available count whose number of holders
\* differs from its consumed count.
C5_Witness ==
    /\ Analysed
    /\ \E i \in 1..Len(license_data) :
          /\ license_data[i].available < 0
          /\ Len(license_data[i].users) # license_data[i].assigned

\* x * den = num exactly, for a number x and naturals den, num.
TimesEquals(x, den, num) ==
    IF x.t = "int" THEN x.v * den = num
    ELSE ScaledCmp[MulSmall[x.m, den], x.e, NatBits[num]] = 0

\* a is within a relative 2^-51 of b.
Near[a \in BitSeq, b \in BitSeq] ==
    /\ Cmp[a \o Zeros[51], Add[b \o Zeros[51], b]] <= 0
    /\ Cmp[Add[a \o Zeros[51], b], b \o Zeros[51]] >= 0

\* x * den is within a relative 2^-51 of num, for a float x.
TimesNear(x, den, num) ==
    /\ x.t = "float"
    /\ Near[MulSmall[x.m, den] \o Zeros[x.e], NatBits[num] \o Zeros[0 - x.e]]

\* C6 as stated: utilization is 0 when nothing is enabled, and otherwise
\* utilization * enabled = consumed * 100 exactly.
C6_ExactPercentage ==
    Analysed =>
        \A i \in 1..Len(license_data) :
            LET r == license_data[i]
            IN  IF r.total_licenses = 0 THEN r.utilization_pct = PyInt(0)
                ELSE TimesEquals(r.utilization_pct, r.total_licenses, r.assigned * 100)

\* C6 amended: utilization is 0 when nothing is enabled, and otherwise the
\* float consumed / enabled * 100, which is within floating-point tolerance (a
\* relative 2^-51) of the exact percentage.
C6_PercentageWithinTolerance ==
    Analysed =>
        \A i \in 1..Len(license_data) :
            LET r == license_data[i]
            IN  IF r.total_licenses = 0 THEN r.utilization_pct = PyInt(0)
                ELSE TimesNear(r.utilization_pct, r.total_licenses, r.assigned * 100)

\* C6 witness: a row whose utilization is not the exact percentage, and a row
\* with nothing enabled.
C6_Witness ==
    /\ Analysed
    /\ \E i \in 1..Len(license_data) :
          /\ license_data[i].total_licenses > 0
          /\ ~TimesEquals(license_data[i].utilization_pct,
                          license_data[i].total_licenses, license_data[i].assigned * 100)
    /\ \E i \in 1..Len(license_data) : license_data[i].total_licenses = 0

\* C7: in the saved workbook, sheet row k+1 is report row k, and its
\* utilization cell is red below 50, yellow from 50 up to 80, green from 80.
C7_FillByBand ==
    Saved =>
        /\ workbook.saved
        /\ Len(workbook.summary) = Len(license_data) + 1
        /\ \A k \in 1..Len(license_data) :
              LET u == license_data[k].utilization_pct
                  f == workbook.summary[k + 1].fills[6]
              IN  /\ workbook.summary[k + 1].cells[2] = license_data[k].sku_code
                  /\ workbook.summary[k + 1].cells[3] = license_data[k].total_licenses
                  /\ workbook.summary[k + 1].cells[4] = license_data[k].assigned
                  /\ f \in {RedFill, YellowFill, GreenFill}
                  /\ f = RedFill <=> NumCmpInt[u, 50] < 0
                  /\ f = YellowFill <=> NumCmpInt[u, 50] >= 0 /\ NumCmpInt[u, 80] < 0
                  /\ f = GreenFill <=> NumCmpInt[u, 80] >= 0

\* C7 witness: a row at exactly 50 filled yellow and a row at exactly 80
\* filled green.
C7_Witness ==
    /\ Saved
    /\ workbook.saved
    /\ \E k \in 1..Len(license_data) :
          /\ NumCmpInt[license_data[k].utilization_pct, 50] = 0
          /\ workbook.summary[k + 1].fills[6] = YellowFill
    /\ \E k \in 1..Len(license_data) :
          /\ NumCmpInt[license_data[k].utilization_pct, 80] = 0
          /\ workbook.summary[k + 1].fills[6] = GreenFill

\* The low-utilization lines printed, in print order.
LowPrinted == SelectSeq(console, LAMBDA l : l[1] = "low")

\* A row belongs in the low-utilization list.
IsLow(r) == NumCmpInt[r.utilization_pct, 70] < 0 /\ r.total_licenses > 0

\* C8: when print_summary returns, the low-utilization lines are exactly the
\* rows below 70 with a total above 0, one line each, in descending order of
\* available units.
C8_LowListExactAndSorted ==
    pc = "done" =>
        /\ Len(LowPrinted) = Cardinality({i \in 1..Len(license_data) : IsLow(license_data[i])})
        /\ \A i \in 1..Len(license_data) :
              IsLow(license_data[i]) =>
                 \E k \in 1..Len(LowPrinted) :
                    /\ LowPrinted[k][2] = license_data[i].license_name
                    /\ LowPrinted[k][3] = license_data[i].available
        /\ \A k \in 1..Len(LowPrinted) :
              \E i \in 1..Len(license_data) :
                 /\ IsLow(license_data[i])
                 /\ LowPrinted[k][2] = license_data[i].license_name
                 /\ LowPrinted[k][3] = license_data[i].available
        /\ \A k \in 1..(Len(LowPrinted) - 1) : LowPrinted[k][3] >= LowPrinted[k + 1][3]
        /\ LowPrinted = <<>> <=> Said("No licenses with low utilization found.")

\* C8 witness: two rows listed in the reverse of their input order, beside a
\* row with total 0 that is left out.
C8_Witness ==
    /\ pc = "done"
    /\ Len(LowPrinted) = 2
    /\ Len(license_data) = 3
    /\ \E z \in 1..3 : license_data[z].total_licenses = 0
    /\ \E i, j \in 1..3 :
          /\ i < j
          /\ IsLow(license_data[i]) /\ IsLow(license_data[j])
          /\ license_data[i].available < license_data[j].available
          /\ LowPrinted[1][3] = license_data[j].available

\* C9: print_summary raises exactly when the enabled counts sum to 0, and then
\* the workbook is already saved, the totals are printed, and neither the
\* overall utilization nor the low-utilization list is.
C9_ZeroTotalCrashes ==
    pc \in {"done", "crashed"} =>
        /\ pc = "crashed" <=> \A i \in 1..Len(skus) : skus[i].prepaidUnits.enabled = 0
        /\ pc = "crashed" =>
              /\ workbook.saved
              /\ Said("Report saved to")
              /\ console[Len(console)][1] = "Total Available (Unused)"
              /\ ~Said("Overall Utilization")
              /\ ~Said("LOW UTILIZATION LICENSES (Potential Cost Savings):")
              /\ LowPrinted = <<>>
        /\ pc = "done" => Said("Overall Utilization")

\* C9 witness: main crashed on SKUs that all have 0 enabled, with users present.
C9_Witness ==
    /\ pc = "crashed"
    /\ skus # <<>>
    /\ users # <<>>
    /\ \A i \in 1..Len(skus) : skus[i].prepaidUnits.enabled = 0

\* C10: the name function maps the 17 known codes to their table values (SPE_E3
\* to Microsoft 365 E3), any other string to itself, and every row's name is
\* the function of the row's SKU code.
C10_FriendlyNames ==
    Analysed =>
      /\ Cardinality(DOMAIN license_names) = 17
      /\ \A code \in DOMAIN license_names :
            /\ get_friendly_license_name(code) = license_names[code]
            /\ get_friendly_license_name(code) # code
      /\ get_friendly_license_name("SPE_E3") = "Microsoft 365 E3"
      /\ get_friendly_license_name("ENTERPRISEPACK") = "Office 365 E3"
      /\ get_friendly_license_name("POWERAPPS_VIRAL") = "Power Apps Trial"
      /\ \A code \in {"CONTOSO_CUSTOM", "", "spe_e3", "Microsoft 365 E3"} :
            get_friendly_license_name(code) = code
      /\ \A i \in 1..Len(license_data) :
            /\ license_data[i].sku_code = skus[i].skuPartNumber
            /\ license_data[i].license_name =
                   IF license_data[i].sku_code = "SPE_E3" THEN "Microsoft 365 E3"
                   ELSE license_data[i].sku_code

\* C10 witness: a row with a known code beside a row with an unknown one.
C10_Witness ==
    /\ Analysed
    /\ \E i, j \in 1..Len(license_data) :
          /\ license_data[i].license_name = "Microsoft 365 E3"
          /\ license_data[j].license_name = "CONTOSO_CUSTOM"

=============================================================================
